---- MODULE Spec2Model ----
(***************************************************************************)
(* Model of src/src/matrix.rs: the 4xN column matrix `Matrix`.             *)
(*                                                                         *)
(* A Matrix is the sequence of its columns (the Vec<[f64; 4]> `v`); a      *)
(* column is a 4-tuple.  Rust indices are 0-based, TLA+ sequences 1-based,  *)
(* so v[i] of the source is v[i + 1] here.  f64 cells are modelled by      *)
(* small integers, on which f64 arithmetic is exact.                       *)
(*                                                                         *)
(* A call that returns a value yields  [ok |-> TRUE, val |-> v]  and a     *)
(* call that panics yields  [ok |-> FALSE, why |-> ...].  A call on        *)
(* `&mut self` yields  [ok |-> ..., m |-> the matrix as the call left it]. *)
(***************************************************************************)
EXTENDS Integers, Sequences, FiniteSets, TLC

VARIABLES self, pre, op, arg, out

vars == <<self, pre, op, arg, out>>

\* Rows of every matrix: the `4` of `[f64; 4]`.
Height == 4

\* Largest width the matrix `self` is grown to.
MaxWidth == 2

\* Largest width of an operand of the arithmetic operators.
MaxOpWidth == 5

----------------------------------------------------------------------------
\* Results of calls.

Ok(v) == [ok |-> TRUE, val |-> v]

\* "check": an explicit panic!() of the source; "index": the bounds check of
\* an indexing expression.
Panic(why) == [ok |-> FALSE, why |-> why]

Done(m) == [ok |-> TRUE, m |-> m]

Abort(m) == [ok |-> FALSE, m |-> m]

Min(a, b) == IF a < b THEN a ELSE b

----------------------------------------------------------------------------
\* Constructors.

new(columns) == columns

empty == new(<<>>)

origin == new(<< <<0, 0, 0, 1>> >>)

identity ==
    new(<< <<1, 0, 0, 0>>,
           <<0, 1, 0, 0>>,
           <<0, 0, 1, 0>>,
           <<0, 0, 0, 1>> >>)

\* new4x4 with the last parameter reused in the second column.
new4x4_reuse_last(p) ==
    << <<p[1], p[5], p[9], p[13]>>,
       <<p[2], p[6], p[10], p[16]>>,
       <<p[3], p[7], p[11], p[15]>>,
       <<p[4], p[8], p[12], p[16]>> >>

\* p is the sequence of the 16 parameters a..p, in the order they are passed.
new4x4(p) ==
    LET a == p[1]   b == p[2]   c == p[3]   d == p[4]
        e == p[5]   f == p[6]   g == p[7]   h == p[8]
        i == p[9]   j == p[10]  k == p[11]  l == p[12]
        m == p[13]  n == p[14]  o == p[15]  q == p[16]
    IN  << <<a, e, i, m>>,
           <<b, f, j, m>>,
           <<c, g, k, o>>,
           <<d, h, l, q>> >>

width(m) == Len(m)

----------------------------------------------------------------------------
\* Accessors.

\* col whose read is not bounds-checked: the index one past the end, which the
\* explicit check lets through, reads whatever follows the last column.
col_unchecked(m, colnum) ==
    IF colnum > Len(m) THEN Panic("check")
    ELSE IF colnum = Len(m) THEN Ok(<<0, 0, 0, 0>>)
    ELSE Ok(m[colnum + 1])

col(m, colnum) ==
    IF colnum > width(m) THEN Panic("check")
    ELSE IF colnum >= Len(m) THEN Panic("index")
    ELSE Ok(m[colnum + 1])

col_vec(m, colnum) ==
    IF colnum > width(m) THEN Panic("check")
    ELSE IF colnum >= Len(m) THEN Panic("index")
    ELSE LET c == m[colnum + 1] IN Ok(<<c[1], c[2], c[3], c[4]>>)

row(m, rownum) ==
    IF rownum > 3 THEN Panic("check")
    ELSE Ok([x \in 1..Len(m) |-> m[x][rownum + 1]])

get(m, r, c) ==
    IF c >= Len(m) THEN Panic("index")
    ELSE IF r >= Height THEN Panic("index")
    ELSE Ok(m[c + 1][r + 1])

----------------------------------------------------------------------------
\* Mutators.

\* set on a flat buffer indexed by column * 4 + row, checked against the
\* buffer's length only: a row past 3 lands in a later column.
set_flat(m, r, c, val) ==
    LET x == c * Height + r
    IN  IF x >= Height * Len(m) THEN Abort(m)
        ELSE Done([m EXCEPT ![(x \div Height) + 1][(x % Height) + 1] = val])

set(m, r, c, val) ==
    IF c >= Len(m) THEN Abort(m)
    ELSE IF r >= Height THEN Abort(m)
    ELSE Done([m EXCEPT ![c + 1][r + 1] = val])

push_col(m, column) == Done(Append(m, column))

RECURSIVE append_from(_, _, _)
append_from(m, other, x) ==
    IF x >= width(other) THEN Done(m)
    ELSE LET c == col(other, x)
         IN  IF ~c.ok THEN Abort(m)
             ELSE append_from(push_col(m, c.val).m, other, x + 1)

\* append whose loop starts at column 1.
append_skip_first(m, other) == append_from(m, other, 1)

append(m, other) == append_from(m, other, 0)

push_edge(m, colA, colB) == push_col(push_col(m, colA).m, colB)

----------------------------------------------------------------------------
\* Arithmetic.

RECURSIVE add_from(_, _, _)
add_from(v, rhs, x) ==
    IF x >= Min(Len(v), Len(rhs)) THEN v
    ELSE LET vcol == v[x + 1]
             rcol == rhs[x + 1]
         IN  add_from([v EXCEPT ![x + 1] = <<vcol[1] + rcol[1],
                                             vcol[2] + rcol[2],
                                             vcol[3] + rcol[3],
                                             vcol[4] + rcol[4]>>],
                      rhs, x + 1)

\* add that keeps only the columns both operands have.
add_truncating(lhs, rhs) ==
    Ok(new(SubSeq(add_from(lhs, rhs, 0), 1, Min(Len(lhs), Len(rhs)))))

add(lhs, rhs) == Ok(new(add_from(lhs, rhs, 0)))

RECURSIVE dot_product_refs(_, _)
dot_product_refs(v, u) ==
    IF Len(v) = 0 \/ Len(u) = 0 THEN 0
    ELSE Head(v) * Head(u) + dot_product_refs(Tail(v), Tail(u))

\* The nested loops of scale_matrix, flattened: step x is row x \div width,
\* column x % width.
RECURSIVE scale_from(_, _, _, _)
scale_from(scalar, mat, result, x) ==
    IF x >= Height * width(mat) THEN Ok(result)
    ELSE LET r == x \div width(mat)
             c == x % width(mat)
             g == get(mat, r, c)
         IN  IF ~g.ok THEN g
             ELSE LET s == set(result, r, c, scalar * g.val)
                  IN  IF ~s.ok THEN Panic("index")
                      ELSE scale_from(scalar, mat, s.m, x + 1)

scale_matrix(scalar, mat) == scale_from(scalar, mat, new(<<>>), 0)

\* &Matrix * f64
mul_f64(m, rhs) == scale_matrix(rhs, m)

\* f64 * &Matrix
f64_mul(lhs, m) == scale_matrix(lhs, m)

\* The nested loops of mul, flattened: step x is i = x \div rhs.width(),
\* j = x % rhs.width().
RECURSIVE mul_from(_, _, _, _)
mul_from(lhs, rhs, m, x) ==
    IF x >= Height * width(rhs) THEN Ok(m)
    ELSE LET i == x \div width(rhs)
             j == x % width(rhs)
             r == row(lhs, i)
             c == col(rhs, j)
         IN  IF ~r.ok THEN r
             ELSE IF ~c.ok THEN c
             ELSE LET s == set(m, i, j, dot_product_refs(r.val, c.val))
                  IN  IF ~s.ok THEN Panic("index")
                      ELSE mul_from(lhs, rhs, s.m, x + 1)

mul(lhs, rhs) ==
    mul_from(lhs, rhs, new([x \in 1..4 |-> <<0, 0, 0, 0>>]), 0)

sub(lhs, rhs) ==
    LET mrhs == mul_f64(rhs, -1)
    IN  IF ~mrhs.ok THEN mrhs ELSE add(lhs, mrhs.val)

dilation(s) == f64_mul(s, identity)

dilation_xyz(sx, sy, sz) ==
    new4x4(<<sx, 0, 0, 0,
             0, sy, 0, 0,
             0, 0, sz, 0,
             0, 0, 0, 1>>)

----------------------------------------------------------------------------
\* Inputs.

Rows == 0..Height

\* Values written by set.
CellVals == { 1 }

\* Columns pushed and appended to `self`.
Columns == { <<0, 0, 0, 1>>, <<1, 1, 1, 1>> }

RECURSIVE MatsOfWidth(_, _)
MatsOfWidth(cols, w) ==
    IF w = 0 THEN { <<>> }
    ELSE { Append(m, c) : m \in MatsOfWidth(cols, w - 1), c \in cols }

MatsUpTo(cols, w) == UNION { MatsOfWidth(cols, x) : x \in 0..w }

----------------------------------------------------------------------------
\* The life of one matrix `self`: each action is one call on it.

Init ==
    /\ self \in {empty, origin}
    /\ pre = self
    /\ op = "new"
    /\ arg = [none |-> 0]
    /\ out = [ok |-> TRUE]

Mutated(name, a, r) ==
    /\ op' = name
    /\ arg' = a
    /\ pre' = self
    /\ self' = r.m
    /\ out' = [ok |-> r.ok]

Read(name, a, r) ==
    /\ op' = name
    /\ arg' = a
    /\ pre' = self
    /\ self' = self
    /\ out' = r

PushCol ==
    \E c \in Columns :
        /\ width(self) + 1 <= MaxWidth
        /\ Mutated("push_col", [col |-> c], push_col(self, c))

PushEdge ==
    \E a \in Columns, b \in Columns :
        /\ width(self) + 2 <= MaxWidth
        /\ Mutated("push_edge", [colA |-> a, colB |-> b], push_edge(self, a, b))

AppendMatrix ==
    \E m \in MatsUpTo(Columns, MaxWidth) :
        /\ width(self) + width(m) <= MaxWidth
        /\ Mutated("append", [m |-> m], append(self, m))

Set ==
    \E r \in Rows, c \in 0..(MaxWidth + 1), val \in CellVals :
        Mutated("set", [row |-> r, col |-> c, val |-> val], set(self, r, c, val))

Get ==
    \E r \in Rows, c \in 0..(MaxWidth + 1) :
        Read("get", [row |-> r, col |-> c], get(self, r, c))

Col ==
    \E c \in 0..(MaxWidth + 1) :
        Read("col", [i |-> c], col(self, c))

ColVec ==
    \E c \in 0..(MaxWidth + 1) :
        Read("col_vec", [i |-> c], col_vec(self, c))

Row ==
    \E r \in Rows :
        Read("row", [i |-> r], row(self, r))

Next ==
    \/ PushCol
    \/ PushEdge
    \/ AppendMatrix
    \/ Set
    \/ Get
    \/ Col
    \/ ColVec
    \/ Row

Spec == Init /\ [][Next]_vars

----------------------------------------------------------------------------
\* The constructors and operators that take their operands by value or by
\* shared reference: the initial state draws the operands, one action applies
\* one of them.

\* Columns of the operands of the arithmetic operators.
OpColumns == { <<1, 2, 3, 1>>, <<4, 5, 6, 1>> }

Operands == MatsUpTo(OpColumns, MaxOpWidth)

Scalars == { -1, 0, 1, 2 }

\* The 16 parameters of new4x4, all 0 but the two at h1 and h2.
TwoHot(h1, v1, h2, v2) ==
    [x \in 1..16 |-> IF x = h1 THEN v1 ELSE IF x = h2 THEN v2 ELSE 0]

Inputs ==
    { [kind |-> "matrices", lhs |-> l, rhs |-> r] :
          l \in Operands \cup {identity}, r \in Operands \cup {origin} }
    \cup { [kind |-> "scaling", s |-> s, m |-> m] : s \in Scalars, m \in Operands }
    \cup { [kind |-> "factor", s |-> s] : s \in Scalars }
    \cup { [kind |-> "factors", sx |-> sx, sy |-> sy, sz |-> sz] :
               sx \in Scalars, sy \in Scalars, sz \in Scalars }
    \cup { [kind |-> "cells", p |-> TwoHot(h1, v1, h2, v2)] :
               h1 \in 1..16, h2 \in 1..16, v1 \in {1, 2}, v2 \in {3} }

InitOps ==
    /\ self = empty
    /\ pre = empty
    /\ op = "input"
    /\ arg \in Inputs
    /\ out = [ok |-> TRUE]

Apply(kind, name, r) ==
    /\ op = "input"
    /\ arg.kind = kind
    /\ op' = name
    /\ out' = r
    /\ UNCHANGED <<self, pre, arg>>

New4x4 == Apply("cells", "new4x4", Ok(new4x4(arg.p)))

Dilation == Apply("factor", "dilation", dilation(arg.s))

DilationXyz ==
    Apply("factors", "dilation_xyz", Ok(dilation_xyz(arg.sx, arg.sy, arg.sz)))

Add == Apply("matrices", "add", add(arg.lhs, arg.rhs))

Sub == Apply("matrices", "sub", sub(arg.lhs, arg.rhs))

Mul == Apply("matrices", "mul", mul(arg.lhs, arg.rhs))

MulF64 == Apply("scaling", "mul_f64", mul_f64(arg.m, arg.s))

F64Mul == Apply("scaling", "f64_mul", f64_mul(arg.s, arg.m))

NextOps ==
    \/ New4x4
    \/ Dilation
    \/ DilationXyz
    \/ Add
    \/ Sub
    \/ Mul
    \/ MulF64
    \/ F64Mul

SpecOps == InitOps /\ [][NextOps]_vars

----------------------------------------------------------------------------
\* Properties.

\* Cell (r, c) of a matrix value, 0-based.
Cell(m, r, c) == m[c + 1][r + 1]

RowIdx == 0..(Height - 1)

ColIdx(m) == 0..(Len(m) - 1)

\* Row r of a matrix value and the mathematical dot product of two 4-vectors.
RowOf(m, r) == [x \in 1..Len(m) |-> m[x][r + 1]]

Dot4(v, u) == v[1] * u[1] + v[2] * u[2] + v[3] * u[3] + v[4] * u[4]

\* C1: identity() * M is a matrix equal to M: it has M's width and M's value
\* in every cell.
C1_IdentityLaw ==
    (op = "mul" /\ arg.lhs = identity) =>
        /\ out.ok
        /\ width(out.val) = width(arg.rhs)
        /\ \A c \in ColIdx(arg.rhs), r \in RowIdx :
               Cell(out.val, r, c) = Cell(arg.rhs, r, c)

\* C2: for a 4x4 matrix A and a matrix B of any width, A * B completes without
\* a bounds fault and its cell (i, j) is the dot product of row i of A with
\* column j of B, for every i in 0..3 and every j below B's width.
C2_MatrixMultiply ==
    (op = "mul" /\ width(arg.lhs) = 4) =>
        /\ out.ok
        /\ \A j \in ColIdx(arg.rhs), i \in RowIdx :
               /\ j < width(out.val)
               /\ Cell(out.val, i, j) = Dot4(RowOf(arg.lhs, i), arg.rhs[j + 1])

\* C3: s * M and M * s do not fail and return a matrix of M's width in which
\* every cell is s times M's cell.
C3_ScalarMultiply ==
    (op \in {"mul_f64", "f64_mul"}) =>
        /\ out.ok
        /\ width(out.val) = width(arg.m)
        /\ \A c \in ColIdx(arg.m), r \in RowIdx :
               Cell(out.val, r, c) = arg.s * Cell(arg.m, r, c)

\* C4: A + B has A's width; its column i is the elementwise sum of the two
\* columns i where both operands have one, and A's column i unchanged where
\* only A has one; no column of B beyond A's width appears.
C4_AddPolicy ==
    (op = "add") =>
        /\ out.ok
        /\ width(out.val) = width(arg.lhs)
        /\ \A c \in ColIdx(arg.lhs), r \in RowIdx :
               Cell(out.val, r, c) =
                   IF c < width(arg.rhs)
                   THEN Cell(arg.lhs, r, c) + Cell(arg.rhs, r, c)
                   ELSE Cell(arg.lhs, r, c)

C4_Witness ==
    /\ op = "add"
    /\ out.ok
    /\ width(arg.rhs) >= 1
    /\ width(arg.lhs) > width(arg.rhs)
    /\ out.val[width(arg.lhs)] = arg.lhs[width(arg.lhs)]
    /\ out.val[1] # arg.lhs[1]

\* C5: new4x4 puts its k-th argument (k in 0..15, row-major) in the cell at
\* row k / 4, column k % 4.
C5_New4x4RowMajor ==
    (op = "new4x4") =>
        /\ out.ok
        /\ width(out.val) = 4
        /\ \A k \in 0..15 : Cell(out.val, k \div 4, k % 4) = arg.p[k + 1]

\* C6: on a matrix of width w, col(i) and col_vec(i) fail for every i >= w and
\* row(i) fails for every i > 3; none of these calls returns a value.
C6_BoundsEnforcement ==
    /\ (op \in {"col", "col_vec"} /\ arg.i >= width(self)) => ~out.ok
    /\ (op = "row" /\ arg.i > 3) => ~out.ok

C6_Witness ==
    /\ op = "col"
    /\ width(self) >= 1
    /\ arg.i = width(self)
    /\ ~out.ok

\* C7: dilation_xyz(sx, sy, sz) is the 4x4 matrix with sx, sy, sz, 1 on the
\* diagonal and 0 in every other cell.
C7_DilationXyz ==
    (op = "dilation_xyz") =>
        /\ out.ok
        /\ width(out.val) = 4
        /\ \A r \in RowIdx, c \in RowIdx :
               Cell(out.val, r, c) =
                   IF r = c THEN <<arg.sx, arg.sy, arg.sz, 1>>[r + 1] ELSE 0

C7_Witness ==
    /\ op = "dilation_xyz"
    /\ out.ok
    /\ arg.sx = 2
    /\ arg.sy = -1
    /\ arg.sz = 0
    /\ Cell(out.val, 1, 1) = -1
    /\ Cell(out.val, 3, 1) = 0

\* C8: dilation(s) returns a 4x4 matrix that is s times the identity in the
\* rows and columns of x, y and z, is 0 off the diagonal, and whose cell
\* (3, 3) is s (s times the identity) or 1 (the w-row (0, 0, 0, 1)).
C8_Dilation ==
    (op = "dilation") =>
        /\ out.ok
        /\ width(out.val) = 4
        /\ \A r \in RowIdx, c \in RowIdx :
               IF r # c THEN Cell(out.val, r, c) = 0
               ELSE IF r < 3 THEN Cell(out.val, r, c) = arg.s
               ELSE Cell(out.val, r, c) \in {arg.s, 1}

\* C9: after A.append(B) on a matrix A of width w, A's width is w + B.width()
\* and A.col(w + i) is B.col(i) for every i below B's width.
C9_AppendGrowth ==
    (op = "append") =>
        /\ out.ok
        /\ width(self) = width(pre) + width(arg.m)
        /\ \A i \in ColIdx(arg.m) :
               /\ col(self, width(pre) + i).ok
               /\ col(self, width(pre) + i).val = arg.m[i + 1]

C9_Witness ==
    /\ op = "append"
    /\ out.ok
    /\ width(pre) >= 1
    /\ width(arg.m) >= 1
    /\ self[width(self)] # self[1]

\* C10: get(row, col) and set(row, col, val) fail whenever row > 3 or
\* col >= width(), and a failing set leaves the width and every cell of the
\* matrix as they were.
C10_CellBounds ==
    /\ (op \in {"get", "set"} /\ (arg.row > 3 \/ arg.col >= width(pre))) => ~out.ok
    /\ (op = "set" /\ ~out.ok) => self = pre

C10_Witness ==
    /\ op = "set"
    /\ arg.row > 3
    /\ arg.col < width(pre)
    /\ ~out.ok
    /\ self = pre

====
